---- MODULE Spec2Model ----
(***************************************************************************)
(* Two dynamic arrays of the repository:                                   *)
(*   DynamicArray      (src/dynamic_array.py)   rebuild-on-remove policy   *)
(*   MerabsDinamicArr  (src/my_dinamic_arr.py)  shift-on-remove policy     *)
(* One object is constructed in Init; every public method is one action.   *)
(* Python lists are 0-based; the sequences below are 1-based, so slot i of *)
(* the list is element i+1 of the sequence.                                *)
(***************************************************************************)
EXTENDS Integers, Sequences, FiniteSets, TLC

\* ---------------------------------------------------------------- bounds
MaxLen == 3        \* add is not called on an array that holds MaxLen elements
MaxInitCap == 2    \* largest capacity handed to the constructor
MaxNegCap == 4     \* add is not called once capacity fell below -MaxNegCap

\* The empty marker (Python None); distinct from every caller value.
None == 0
Vals == {1, 2}
Elems == {None} \cup Vals
InitCaps == (0 - 1)..MaxInitCap
Indices == (0 - 1)..MaxLen

VARIABLES
  cls,       \* which class the object is an instance of
  exists,    \* FALSE when the constructor raised: there is no object
  arr,       \* self._arr / self.arr: the backing list
  len,       \* self._len / self.len
  capacity,  \* self._capacity / self.capacity
  op,        \* the last call made on the object
  idx,       \* its index argument (0 when it has none)
  val,       \* its element argument (None when it has none)
  ret,       \* what the last call returned (None for a call that returns nothing)
  err,       \* the exception the last call raised, "none" when it returned
  pre,       \* the object just before the last call
  stray,     \* TRUE once a plain set wrote a slot outside the live range
  fresh      \* while only add and reads were called since construction: the
             \* constructor's capacity and the arguments of the add calls
             \* (at most MaxLen of them are followed)

vars == <<cls, exists, arr, len, capacity, op, idx, val, ret, err, pre, stray, fresh>>

\* ------------------------------------------------------- list primitives
\* [None] * n  (an empty list when n <= 0)
Nones(n) == [i \in 1..n |-> None]

\* Does the list a accept the subscript i (a[i] does not raise IndexError)?
Accepts(a, i) == i >= 0 - Len(a) /\ i < Len(a)

\* The 1-based position the subscript i of list a denotes (negative i counts
\* from the end).
Pos(a, i) == IF i >= 0 THEN i + 1 ELSE Len(a) + i + 1

\* The live elements: slots 0..l-1 of a.
Live(a, l) == [i \in 1..l |-> a[i]]

\* for i in range(l): new_arr[i] = a[i]
CopyLive_fromone(new_arr, a, l) ==
  [i \in 1..Len(new_arr) |-> IF i > 1 /\ i <= l THEN a[i] ELSE new_arr[i]]
CopyLive(new_arr, a, l) == [i \in 1..Len(new_arr) |-> IF i <= l THEN a[i] ELSE new_arr[i]]

\* The number of slots outside the live range that hold a value.
Dirty(a, l) == Cardinality({i \in (l + 1)..Len(a) : a[i] # None})

\* Did the last call take an element out of the array?
Removed == \/ (op = "remove_at" /\ err = "none")
           \/ (op = "remove" /\ ret = TRUE)

Snapshot == [arr |-> arr, len |-> len, capacity |-> capacity, removed |-> Removed]

\* The record kept in fresh once a call other than add or a read was made.
NotFresh == [only |-> FALSE, cap |-> 0, adds |-> <<>>]

\* Bookkeeping of a call: what was called with which arguments, and the
\* object as it was before the call.
Called(o, i, v) == /\ op' = o
                   /\ idx' = i
                   /\ val' = v
                   /\ pre' = Snapshot
                   /\ stray' = (stray \/ (o = "set" /\ Accepts(arr, i) /\ Pos(arr, i) > len))
                   /\ fresh' = IF o \in {"size", "is_empty", "get", "index_of", "contains",
                                          "iter", "getitem"}
                                 THEN fresh
                                 ELSE IF o = "add" /\ fresh.only /\ Len(fresh.adds) < MaxLen
                                        THEN [fresh EXCEPT !.adds = Append(@, v)]
                                        ELSE NotFresh
                   /\ UNCHANGED <<cls, exists>>

IsDA == cls = "DynamicArray" /\ exists
IsM == cls = "MerabsDinamicArr" /\ exists

\* ------------------------------------------------------------ DynamicArray
\* __init__: raises ValueError for a negative capacity.
DynamicArray_init(c) ==
  /\ cls = "DynamicArray"
  /\ op = "init" /\ idx = c /\ val = None /\ ret = None
  /\ IF c < 0
       THEN /\ exists = FALSE
            /\ err = "ValueError"
            /\ arr = <<>> /\ len = 0 /\ capacity = 0
       ELSE /\ exists = TRUE
            /\ err = "none"
            /\ capacity = c
            /\ len = 0
            /\ arr = Nones(c)
  /\ pre = [arr |-> <<>>, len |-> 0, capacity |-> 0, removed |-> FALSE]
  /\ stray = FALSE
  /\ fresh = [only |-> TRUE, cap |-> c, adds |-> <<>>]

\* size and is_empty, as functions of _len
DA_Size(l) == l
DA_IsEmpty(l) == DA_Size(l) = 0

DynamicArray_size ==
  /\ IsDA
  /\ Called("size", 0, None)
  /\ ret' = DA_Size(len)
  /\ err' = "none"
  /\ UNCHANGED <<arr, len, capacity>>

DynamicArray_is_empty ==
  /\ IsDA
  /\ Called("is_empty", 0, None)
  /\ ret' = DA_IsEmpty(len)
  /\ err' = "none"
  /\ UNCHANGED <<arr, len, capacity>>

\* self._arr[index]: the list raises for a subscript it does not accept.
ListGet(a, index) ==
  IF Accepts(a, index)
    THEN [ret |-> a[Pos(a, index)], err |-> "none"]
    ELSE [ret |-> None, err |-> "IndexError"]

\* get: no check of its own.
DA_Get(a, index) == ListGet(a, index)

DynamicArray_get(index) ==
  /\ IsDA
  /\ Called("get", index, None)
  /\ ret' = DA_Get(arr, index).ret
  /\ err' = DA_Get(arr, index).err
  /\ UNCHANGED <<arr, len, capacity>>

DynamicArray_set(index, elem) ==
  /\ IsDA
  \* input bound: the caller writes outside the live range only while no
  \* slot outside it holds a value
  /\ (Accepts(arr, index) /\ Pos(arr, index) > len) => Dirty(arr, len) = 0
  /\ Called("set", index, elem)
  /\ ret' = None
  /\ IF Accepts(arr, index)
       THEN arr' = [arr EXCEPT ![Pos(arr, index)] = elem] /\ err' = "none"
       ELSE arr' = arr /\ err' = "IndexError"
  /\ UNCHANGED <<len, capacity>>

\* clear, lines 65-66: for i in range(self._len): self._arr[i] = None
DA_Cleared_lenonly(a, l) == a
DA_Cleared_butlast(a, l) == [i \in 1..Len(a) |-> IF i <= l - 1 THEN None ELSE a[i]]
DA_Cleared(a, l) == [i \in 1..Len(a) |-> IF i <= l THEN None ELSE a[i]]

DynamicArray_clear ==
  /\ IsDA
  /\ Called("clear", 0, None)
  /\ arr' = DA_Cleared(arr, len)
  /\ len' = 0
  /\ ret' = None
  /\ err' = "none"
  /\ UNCHANGED capacity

\* add, line 77: the test that triggers the reallocation.
TimeToResize_early(l, c) == l >= c
TimeToResize(l, c) == l + 1 >= c

\* add, lines 78-81: the capacity after growing.
GrownCapacity(c) == IF c = 0 THEN 1 ELSE c * 2

DynamicArray_add(elem) ==
  /\ IsDA
  /\ len < MaxLen
  /\ Called("add", 0, elem)
  /\ LET newcap == IF TimeToResize(len, capacity) THEN GrownCapacity(capacity) ELSE capacity
         store == IF TimeToResize(len, capacity)
                    THEN CopyLive(Nones(newcap), arr, len)
                    ELSE arr
     IN /\ capacity' = newcap
        /\ IF Accepts(store, len)
             THEN /\ arr' = [store EXCEPT ![len + 1] = elem]
                  /\ len' = len + 1
                  /\ err' = "none"
             ELSE /\ arr' = store
                  /\ len' = len
                  /\ err' = "IndexError"
  /\ ret' = None

\* remove_at, line 104
OutOfBounds(i, l) == i >= l \/ i < 0

\* remove_at, lines 108-115: the loop that copies every element but rm_index
\* into new_arr; i is the loop variable, j the write position (both 0-based).
RECURSIVE RemoveLoop(_, _, _, _, _, _)
RemoveLoop(new_arr, a, l, rm_index, i, j) ==
  IF i >= l THEN new_arr
  ELSE IF i = rm_index THEN RemoveLoop(new_arr, a, l, rm_index, i + 1, j)
  ELSE RemoveLoop([new_arr EXCEPT ![j + 1] = a[i + 1]], a, l, rm_index, i + 1, j + 1)

Rebuilt_droplast(a, l, rm_index) == RemoveLoop(Nones(l - 1), a, l, l - 1, 0, 0)
Rebuilt_oversized(a, l, rm_index) == RemoveLoop(Nones(l), a, l, rm_index, 0, 0)
Rebuilt(a, l, rm_index) == RemoveLoop(Nones(l - 1), a, l, rm_index, 0, 0)

\* remove_at, line 119: the capacity recorded after the rebuild.
CapacityAfterRemove_kept(c, l) == c
CapacityAfterRemove(c, l) == l

\* The effect of remove_at on the object, shared by remove_at and remove.
DA_RemoveEffect(rm_index) ==
  /\ arr' = Rebuilt(arr, len, rm_index)
  /\ len' = len - 1
  /\ capacity' = CapacityAfterRemove(capacity, len - 1)

DynamicArray_remove_at(rm_index) ==
  /\ IsDA
  /\ Called("remove_at", rm_index, None)
  /\ IF OutOfBounds(rm_index, len)
       THEN /\ err' = "IndexError"
            /\ ret' = None
            /\ UNCHANGED <<arr, len, capacity>>
       ELSE /\ err' = "none"
            /\ ret' = arr[rm_index + 1]
            /\ DA_RemoveEffect(rm_index)

\* index_of, lines 148-155: the scan from slot i on.
RECURSIVE DA_IndexOfFrom(_, _, _, _)
DA_IndexOfFrom(a, l, obj, i) ==
  IF i >= l THEN 0 - 1
  ELSE IF obj = None
         THEN (IF a[i + 1] = None THEN i ELSE DA_IndexOfFrom(a, l, obj, i + 1))
         ELSE (IF obj = a[i + 1] THEN i ELSE DA_IndexOfFrom(a, l, obj, i + 1))

RECURSIVE DA_IndexOfLast(_, _, _)
DA_IndexOfLast(a, obj, i) ==
  IF i < 0 THEN 0 - 1
  ELSE IF a[i + 1] = obj THEN i
  ELSE DA_IndexOfLast(a, obj, i - 1)

DA_IndexOf_last(a, l, obj) == DA_IndexOfLast(a, obj, l - 1)
DA_IndexOf_capacity(a, l, obj) == DA_IndexOfFrom(a, Len(a), obj, 0)
DA_IndexOf(a, l, obj) == DA_IndexOfFrom(a, l, obj, 0)

DynamicArray_index_of(obj) ==
  /\ IsDA
  /\ Called("index_of", 0, obj)
  /\ ret' = DA_IndexOf(arr, len, obj)
  /\ err' = "none"
  /\ UNCHANGED <<arr, len, capacity>>

DynamicArray_contains(obj) ==
  /\ IsDA
  /\ Called("contains", 0, obj)
  /\ ret' = (DA_IndexOf(arr, len, obj) # 0 - 1)
  /\ err' = "none"
  /\ UNCHANGED <<arr, len, capacity>>

DynamicArray_remove(obj) ==
  /\ IsDA
  /\ Called("remove", 0, obj)
  /\ err' = "none"
  /\ LET index == DA_IndexOf(arr, len, obj)
     IN IF index = 0 - 1
          THEN /\ ret' = FALSE
               /\ UNCHANGED <<arr, len, capacity>>
          ELSE /\ ret' = TRUE
               /\ DA_RemoveEffect(index)

\* __iter__: the values the generator yields when it is run to its end.
DynamicArray_iter ==
  /\ IsDA
  /\ Called("iter", 0, None)
  /\ ret' = Live(arr, len)
  /\ err' = "none"
  /\ UNCHANGED <<arr, len, capacity>>

\* __getitem__ / __setitem__, lines 195 and 201
ItemOutOfBounds_nonneg(index, l) == index >= l
ItemOutOfBounds(index, l) == index < 0 \/ index >= l

DynamicArray_getitem(index) ==
  /\ IsDA
  /\ Called("getitem", index, None)
  /\ IF ItemOutOfBounds(index, len)
       THEN ret' = None /\ err' = "IndexError"
       ELSE IF Accepts(arr, index)
              THEN ret' = arr[Pos(arr, index)] /\ err' = "none"
              ELSE ret' = None /\ err' = "IndexError"
  /\ UNCHANGED <<arr, len, capacity>>

DynamicArray_setitem(index, value) ==
  /\ IsDA
  /\ Called("setitem", index, value)
  /\ ret' = None
  /\ IF ItemOutOfBounds(index, len)
       THEN arr' = arr /\ err' = "IndexError"
       ELSE IF Accepts(arr, index)
              THEN arr' = [arr EXCEPT ![Pos(arr, index)] = value] /\ err' = "none"
              ELSE arr' = arr /\ err' = "IndexError"
  /\ UNCHANGED <<len, capacity>>

\* -------------------------------------------------------- MerabsDinamicArr
\* __init__: no check of the capacity; [None] * capacity is empty for a
\* negative capacity.
MerabsDinamicArr_init(c) ==
  /\ cls = "MerabsDinamicArr"
  /\ op = "init" /\ idx = c /\ val = None /\ ret = None
  /\ exists = TRUE
  /\ err = "none"
  /\ capacity = c
  /\ len = 0
  /\ arr = Nones(c)
  /\ pre = [arr |-> <<>>, len |-> 0, capacity |-> 0, removed |-> FALSE]
  /\ stray = FALSE
  /\ fresh = [only |-> TRUE, cap |-> c, adds |-> <<>>]

MerabsDinamicArr_size ==
  /\ IsM
  /\ Called("size", 0, None)
  /\ ret' = len
  /\ err' = "none"
  /\ UNCHANGED <<arr, len, capacity>>

MerabsDinamicArr_is_empty ==
  /\ IsM
  /\ Called("is_empty", 0, None)
  /\ ret' = (len = 0)
  /\ err' = "none"
  /\ UNCHANGED <<arr, len, capacity>>

\* get / set_at / remove_at, lines 21, 26, 44
M_OutOfRange_off(index, l) == index < 0 \/ index > l
M_OutOfRange(index, l) == index < 0 \/ index >= l

\* get: checked against len, then self.arr[index].
M_Get(a, l, index) ==
  IF M_OutOfRange(index, l)
    THEN [ret |-> None, err |-> "IndexError"]
    ELSE ListGet(a, index)

MerabsDinamicArr_get(index) ==
  /\ IsM
  /\ Called("get", index, None)
  /\ ret' = M_Get(arr, len, index).ret
  /\ err' = M_Get(arr, len, index).err
  /\ UNCHANGED <<arr, len, capacity>>

MerabsDinamicArr_set_at(index, value) ==
  /\ IsM
  /\ Called("set_at", index, value)
  /\ ret' = None
  /\ IF M_OutOfRange(index, len)
       THEN arr' = arr /\ err' = "IndexError"
       ELSE IF Accepts(arr, index)
              THEN arr' = [arr EXCEPT ![Pos(arr, index)] = value] /\ err' = "none"
              ELSE arr' = arr /\ err' = "IndexError"
  /\ UNCHANGED <<len, capacity>>

\* _resize, line 64: the test that triggers the reallocation.
M_Full(l, c) == l >= c

\* _resize, line 65: the capacity after growing.
M_Doubled(c) == c * 2

\* _resize: the capacity and the list it leaves.
M_ResizedCapacity(l, c) == IF M_Full(l, c) THEN M_Doubled(c) ELSE c
M_ResizedArr(a, l, c) == IF M_Full(l, c) THEN CopyLive(Nones(M_Doubled(c)), a, l) ELSE a

\* add: _resize(), then the write, which raises IndexError when the list does
\* not accept the subscript len; _resize's assignments stay made.
MerabsDinamicArr_add(value) ==
  /\ IsM
  /\ len < MaxLen
  /\ capacity >= 0 - MaxNegCap
  /\ Called("add", 0, value)
  /\ LET store == M_ResizedArr(arr, len, capacity)
     IN /\ capacity' = M_ResizedCapacity(len, capacity)
        /\ IF Accepts(store, len)
             THEN /\ arr' = [store EXCEPT ![Pos(store, len)] = value]
                  /\ len' = len + 1
                  /\ err' = "none"
             ELSE /\ arr' = store
                  /\ len' = len
                  /\ err' = "IndexError"
  /\ ret' = None

\* remove_at, lines 48-49: for i in range(index, len - 1): arr[i] = arr[i + 1]
RECURSIVE M_ShiftLoop(_, _, _)
M_ShiftLoop(a, l, i) ==
  IF i >= l - 1 THEN a
  ELSE M_ShiftLoop([a EXCEPT ![i + 1] = a[i + 2]], l, i + 1)

\* remove_at, lines 48-52: the shift, then arr[len - 1] = None and len -= 1;
\* the write raises IndexError when the list does not accept len - 1.
M_RemoveEffect(index) ==
  LET shifted == M_ShiftLoop(arr, len, index)
  IN /\ IF Accepts(shifted, len - 1)
          THEN /\ arr' = [shifted EXCEPT ![Pos(shifted, len - 1)] = None]
               /\ len' = len - 1
               /\ err' = "none"
          ELSE /\ arr' = shifted
               /\ len' = len
               /\ err' = "IndexError"
     /\ UNCHANGED capacity

\* remove_at has no return statement: the call returns None.
MerabsDinamicArr_remove_at(index) ==
  /\ IsM
  /\ Called("remove_at", index, None)
  /\ ret' = None
  /\ IF M_OutOfRange(index, len)
       THEN /\ err' = "IndexError"
            /\ UNCHANGED <<arr, len, capacity>>
       ELSE M_RemoveEffect(index)

\* index_of, lines 55-58: the scan from slot i on.
RECURSIVE M_IndexOfFrom(_, _, _, _)
M_IndexOfFrom(a, l, value, i) ==
  IF i >= l THEN 0 - 1
  ELSE IF a[i + 1] = value THEN i
  ELSE M_IndexOfFrom(a, l, value, i + 1)

M_IndexOf_capacity(a, l, value) == M_IndexOfFrom(a, Len(a), value, 0)
M_IndexOf(a, l, value) == M_IndexOfFrom(a, l, value, 0)

MerabsDinamicArr_index_of(value) ==
  /\ IsM
  /\ Called("index_of", 0, value)
  /\ ret' = M_IndexOf(arr, len, value)
  /\ err' = "none"
  /\ UNCHANGED <<arr, len, capacity>>

MerabsDinamicArr_contains(value) ==
  /\ IsM
  /\ Called("contains", 0, value)
  /\ ret' = (M_IndexOf(arr, len, value) # 0 - 1)
  /\ err' = "none"
  /\ UNCHANGED <<arr, len, capacity>>

MerabsDinamicArr_remove(value) ==
  /\ IsM
  /\ Called("remove", 0, value)
  /\ LET index == M_IndexOf(arr, len, value)
     IN IF index # 0 - 1
          THEN /\ ret' = TRUE
               /\ M_RemoveEffect(index)
          ELSE /\ ret' = FALSE
               /\ err' = "none"
               /\ UNCHANGED <<arr, len, capacity>>

\* __iter__, lines 72-74: the values the generator yields when it is run to
\* its end; a live slot holding None is skipped.
RECURSIVE M_Yielded(_, _, _)
M_Yielded(a, l, i) ==
  IF i >= l THEN <<>>
  ELSE IF a[i + 1] # None THEN <<a[i + 1]>> \o M_Yielded(a, l, i + 1)
  ELSE M_Yielded(a, l, i + 1)

MerabsDinamicArr_iter ==
  /\ IsM
  /\ Called("iter", 0, None)
  /\ ret' = M_Yielded(arr, len, 0)
  /\ err' = "none"
  /\ UNCHANGED <<arr, len, capacity>>

\* ------------------------------------------------------------ specification
Init == \E c \in InitCaps : DynamicArray_init(c) \/ MerabsDinamicArr_init(c)

Next ==
  \/ DynamicArray_size
  \/ DynamicArray_is_empty
  \/ \E i \in Indices : DynamicArray_get(i)
  \/ \E i \in Indices, e \in Elems : DynamicArray_set(i, e)
  \/ DynamicArray_clear
  \/ \E e \in Elems : DynamicArray_add(e)
  \/ \E i \in Indices : DynamicArray_remove_at(i)
  \/ \E e \in Elems : DynamicArray_index_of(e)
  \/ \E e \in Elems : DynamicArray_contains(e)
  \/ \E e \in Elems : DynamicArray_remove(e)
  \/ DynamicArray_iter
  \/ \E i \in Indices : DynamicArray_getitem(i)
  \/ \E i \in Indices, e \in Elems : DynamicArray_setitem(i, e)
  \/ MerabsDinamicArr_size
  \/ MerabsDinamicArr_is_empty
  \/ \E i \in Indices : MerabsDinamicArr_get(i)
  \/ \E i \in Indices, e \in Elems : MerabsDinamicArr_set_at(i, e)
  \/ \E e \in Elems : MerabsDinamicArr_add(e)
  \/ \E i \in Indices : MerabsDinamicArr_remove_at(i)
  \/ \E e \in Elems : MerabsDinamicArr_index_of(e)
  \/ \E e \in Elems : MerabsDinamicArr_contains(e)
  \/ \E e \in Elems : MerabsDinamicArr_remove(e)
  \/ MerabsDinamicArr_iter

Spec == Init /\ [][Next]_vars

\* ------------------------------------------------------------------ claims
\* C1: DynamicArray, only add calls (and reads) since construction with a
\* capacity >= 0: every add succeeded, size() is the number of add calls and
\* get(i) is the i-th added value for every i below it.
C1_AddsInOrder ==
  (IsDA /\ fresh.only /\ fresh.cap >= 0) =>
    /\ op = "add" => err = "none"
    /\ len = Len(fresh.adds)
    /\ \A i \in 0..(Len(fresh.adds) - 1) :
         DA_Get(arr, i) = [ret |-> fresh.adds[i + 1], err |-> "none"]

C1_Witness ==
  /\ IsDA /\ fresh.only /\ fresh.cap = 0
  /\ fresh.adds = <<2, None, 1>>
  /\ op = "get" /\ idx = 2 /\ ret = 1

\* C2: DynamicArray, every reachable state: 0 <= length <= capacity and the
\* recorded capacity is the number of slots of the backing list.
C2_LengthWithinCapacity ==
  IsDA => /\ 0 <= len
          /\ len <= capacity
          /\ capacity = Len(arr)

C2_Witness ==
  /\ IsDA /\ op = "add" /\ pre.removed
  /\ len = 2 /\ capacity = 2 /\ Len(arr) = 2

\* The capacity the growth rule of the specification gives an add that finds
\* length l and capacity c.
GrowthRule(l, c) == IF l + 1 >= c THEN (IF c = 0 THEN 1 ELSE 2 * c) ELSE c

\* The capacities successive adds observe on an array constructed with
\* capacity 0: 1, 2, 4, 8, 8, 8, 8, 16.
FromZero == <<1, 2, 4, 8, 8, 8, 8, 16>>

\* C3: DynamicArray.add: the capacity after add is 1 if L+1 >= C and C = 0,
\* 2*C if L+1 >= C and C > 0, and C otherwise; the new element is written
\* inside the grown list and the first L live elements keep values and order.
C3_GrowthRule ==
  (IsDA /\ op = "add") =>
    /\ capacity = GrowthRule(pre.len, pre.capacity)
    /\ Len(arr) = capacity
    /\ err = "none"
    /\ len = pre.len + 1
    /\ arr[len] = val
    /\ Live(arr, pre.len) = Live(pre.arr, pre.len)
    /\ (fresh.only /\ fresh.cap = 0 /\ len <= Len(FromZero)) => capacity = FromZero[len]

C3_Witness ==
  /\ IsDA /\ op = "add"
  /\ pre.capacity = 1 /\ pre.len = 0
  /\ capacity = 2 /\ len = 1


\* C4: MerabsDinamicArr.add grows by the growth rule of the specification:
\* whenever L+1 >= C, to 1 if C = 0 and to 2*C otherwise; C stays when L+1 < C.
C4_MerabsGrowthRule ==
  (IsM /\ op = "add") => capacity = GrowthRule(pre.len, pre.capacity)

\* C5: MerabsDinamicArr, only add calls (and reads) since construction with a
\* capacity >= 0: every add succeeded and wrote inside [0, capacity), size()
\* is the number of add calls and get(i) is the i-th added value.
C5_MerabsAddsInOrder ==
  (IsM /\ fresh.only /\ fresh.cap >= 0) =>
    /\ op = "add" => (err = "none" /\ pre.len < capacity)
    /\ len = Len(fresh.adds)
    /\ \A i \in 0..(Len(fresh.adds) - 1) :
         M_Get(arr, len, i) = [ret |-> fresh.adds[i + 1], err |-> "none"]

\* C6: in both classes construction with a negative capacity raises, so no
\* object has capacity < 0; construction with c >= 0 gives length 0 and
\* exactly c empty slots.
C6_NegativeCapacityRejected ==
  /\ (op = "init" /\ idx < 0) => (~exists /\ err = "ValueError")
  /\ exists => capacity >= 0
  /\ (op = "init" /\ idx >= 0) =>
       (exists /\ err = "none" /\ len = 0 /\ capacity = idx /\ arr = Nones(idx))

\* C7: in both classes remove_at(index) with index < 0 or index >= length
\* raises an index error and leaves length, capacity and every slot unchanged.
C7_RemoveAtOutOfRange ==
  (exists /\ op = "remove_at" /\ (idx < 0 \/ idx >= pre.len)) =>
    /\ err = "IndexError"
    /\ len = pre.len
    /\ capacity = pre.capacity
    /\ arr = pre.arr

C7_Witness ==
  /\ IsM /\ op = "remove_at" /\ err = "IndexError"
  /\ len = 2 /\ idx = 2 /\ capacity = 4
  /\ arr = <<1, 2, None, None>>

\* s without its k-th element.
Without(s, k) == SubSeq(s, 1, k - 1) \o SubSeq(s, k + 1, Len(s))

\* C8: DynamicArray.remove_at(index) with 0 <= index < length returns the
\* element stored at index, decreases length by 1 and leaves the other live
\* elements in their order.
C8_RemoveAtInRange ==
  (IsDA /\ op = "remove_at" /\ idx >= 0 /\ idx < pre.len) =>
    /\ err = "none"
    /\ ret = pre.arr[idx + 1]
    /\ len = pre.len - 1
    /\ Live(arr, len) = Without(Live(pre.arr, pre.len), idx + 1)

C8_Witness ==
  /\ IsDA /\ op = "remove_at" /\ idx = 1
  /\ Live(pre.arr, pre.len) = <<2, 1, None>>
  /\ ret = 1
  /\ Live(arr, len) = <<2, None>>

\* C9: in both classes add(x), once it returned, followed by
\* remove_at(size() - 1) returns x from remove_at and restores the size and
\* the live elements there were before the add.
C9_AddRemoveRoundTrip ==
  [][(exists /\ op = "add" /\ err = "none" /\ op' = "remove_at" /\ idx' = len - 1) =>
       /\ err' = "none"
       /\ ret' = val
       /\ len' = pre.len
       /\ Live(arr', len') = Live(pre.arr, pre.len)]_vars

\* The round trip of C9 on DynamicArray alone.
C9_DynamicArrayRoundTrip ==
  [][(IsDA /\ op = "add" /\ err = "none" /\ op' = "remove_at" /\ idx' = len - 1) =>
       /\ err' = "none"
       /\ ret' = val
       /\ len' = pre.len
       /\ Live(arr', len') = Live(pre.arr, pre.len)]_vars

\* C10: DynamicArray: after a successful removal (remove_at, or remove that
\* found the value) capacity is exactly the new length and so is the number
\* of slots; the add that follows reallocates, to capacity 1 if the length
\* was 0 and to twice the length otherwise.
C10_RebuildThenGrow ==
  /\ (IsDA /\ Removed) => (capacity = len /\ Len(arr) = len)
  /\ (IsDA /\ op = "add" /\ pre.removed) =>
       /\ capacity = (IF pre.len = 0 THEN 1 ELSE 2 * pre.len)
       /\ capacity # pre.capacity
       /\ Len(arr) = capacity

C10_Witness ==
  /\ IsDA /\ op = "add" /\ pre.removed
  /\ pre.len = 2 /\ pre.capacity = 2
  /\ capacity = 4 /\ len = 3

\* C11: in both classes iteration yields exactly the length elements at
\* indices 0..length-1 in index order, whatever they are (a live None
\* included), and every iteration request starts at index 0.
C11_IterationYieldsLive ==
  (exists /\ op = "iter") =>
    /\ err = "none"
    /\ Len(ret) = len
    /\ ret = Live(arr, len)

\* The iteration of C11 on DynamicArray alone.
C11_DynamicArrayIteration ==
  (IsDA /\ op = "iter") => (err = "none" /\ ret = Live(arr, len))

\* Does value equal none of the l live elements of a?
Absent(a, l, value) == \A i \in 1..l : a[i] # value

\* C12: in both classes, for a value equal to none of the live elements:
\* index_of returns -1, contains returns False, and remove returns False,
\* raises nothing and leaves length, capacity and every slot unchanged.
C12_AbsentValue ==
  (exists /\ Absent(pre.arr, pre.len, val)) =>
    /\ op = "index_of" => (ret = 0 - 1 /\ err = "none")
    /\ op = "contains" => (ret = FALSE /\ err = "none")
    /\ op = "remove" =>
         /\ ret = FALSE
         /\ err = "none"
         /\ len = pre.len
         /\ capacity = pre.capacity
         /\ arr = pre.arr

C12_Witness ==
  /\ IsM /\ op = "remove" /\ val = None /\ ret = FALSE
  /\ len = 2 /\ capacity = 4
  /\ arr = <<1, 2, None, None>>

\* The smallest position of value among the l live elements of a (1-based).
FirstAt(a, l, value) ==
  CHOOSE k \in 1..l : a[k] = value /\ \A j \in 1..(k - 1) : a[j] # value

\* C13: in both classes, when value occurs among the live elements,
\* remove(value) returns True, takes out only the occurrence at the smallest
\* index, decreases length by 1 and keeps the order of the other elements.
C13_RemoveFirstOccurrence ==
  (exists /\ op = "remove" /\ ~Absent(pre.arr, pre.len, val)) =>
    /\ ret = TRUE
    /\ err = "none"
    /\ len = pre.len - 1
    /\ Live(arr, len) =
         Without(Live(pre.arr, pre.len), FirstAt(pre.arr, pre.len, val))

C13_Witness ==
  /\ IsDA /\ op = "remove" /\ val = 1 /\ ret = TRUE
  /\ Live(pre.arr, pre.len) = <<1, 2, 1>>
  /\ Live(arr, len) = <<2, 1>>

\* The same case on MerabsDinamicArr, with a duplicate left in place.
C13_MerabsWitness ==
  /\ IsM /\ op = "remove" /\ val = 1 /\ ret = TRUE
  /\ Live(pre.arr, pre.len) = <<1, 2, 1>>
  /\ Live(arr, len) = <<2, 1>>

\* The calls that go through a checked accessor: bracket read and write of
\* DynamicArray, get and set_at of MerabsDinamicArr.
CheckedRead == (IsDA /\ op = "getitem") \/ (IsM /\ op = "get")
CheckedWrite == (IsDA /\ op = "setitem") \/ (IsM /\ op = "set_at")

\* C14: the checked accessors raise an index error for every index outside
\* [0, length) and leave the array unchanged; inside it the read returns the
\* element at index and the write replaces only that element, length and
\* capacity staying as they were.
C14_CheckedAccessors ==
  /\ ((CheckedRead \/ CheckedWrite) /\ (idx < 0 \/ idx >= pre.len)) =>
       /\ err = "IndexError"
       /\ arr = pre.arr /\ len = pre.len /\ capacity = pre.capacity
  /\ (CheckedRead /\ idx >= 0 /\ idx < pre.len) =>
       /\ err = "none"
       /\ ret = pre.arr[idx + 1]
       /\ arr = pre.arr /\ len = pre.len /\ capacity = pre.capacity
  /\ (CheckedWrite /\ idx >= 0 /\ idx < pre.len) =>
       /\ err = "none"
       /\ arr = [pre.arr EXCEPT ![idx + 1] = val]
       /\ len = pre.len /\ capacity = pre.capacity

\* A bracket read between length and capacity is refused.
C14_Witness ==
  /\ IsDA /\ op = "getitem" /\ err = "IndexError"
  /\ len = 2 /\ idx = 2 /\ capacity = 4
  /\ arr[3] = 1

\* C15: DynamicArray.clear() sets length to 0, resets every previously live
\* slot to None, leaves capacity and the number of slots unchanged, and
\* is_empty() is True and size() is 0 after it.
C15_Clear ==
  (IsDA /\ op = "clear") =>
    /\ err = "none"
    /\ len = 0
    /\ \A i \in 1..pre.len : arr[i] = None
    /\ capacity = pre.capacity
    /\ Len(arr) = Len(pre.arr)
    /\ DA_IsEmpty(len) = TRUE
    /\ DA_Size(len) = 0

C15_Witness ==
  /\ IsDA /\ op = "clear"
  /\ pre.len = 3 /\ Live(pre.arr, pre.len) = <<1, 2, 1>>
  /\ capacity = 4 /\ arr = Nones(4)

\* The list the shift policy leaves: the elements after position index move
\* one slot left, the slot of the old last element is None, the rest stays.
ShiftedLeft(a, l, index) ==
  [i \in 1..Len(a) |-> IF i <= index THEN a[i]
                       ELSE IF i < l THEN a[i + 1]
                       ELSE IF i = l THEN None
                       ELSE a[i]]

\* The shift of C16, without its consequence for the capacity.
C16_ShiftOnly ==
  (IsM /\ op = "remove_at" /\ idx >= 0 /\ idx < pre.len) =>
    /\ err = "none"
    /\ len = pre.len - 1
    /\ capacity = pre.capacity
    /\ arr = ShiftedLeft(pre.arr, pre.len, idx)

\* C16: MerabsDinamicArr.remove_at(index) with 0 <= index < length shifts the
\* elements after index left by one, sets the vacated last slot to None,
\* decreases length by 1 and leaves capacity unchanged; and no call on a
\* MerabsDinamicArr ever decreases its capacity.
C16_ShiftPolicy ==
  /\ (IsM /\ op = "remove_at" /\ idx >= 0 /\ idx < pre.len) =>
       /\ err = "none"
       /\ len = pre.len - 1
       /\ capacity = pre.capacity
       /\ arr = ShiftedLeft(pre.arr, pre.len, idx)
  /\ (IsM /\ op # "init") => capacity >= pre.capacity

\* Every slot at an index in [l, c) of a holds None.
SlackEmpty(a, l, c) == \A i \in (l + 1)..c : a[i] = None

\* C17 as claimed: DynamicArray, after any sequence of public operations,
\* plain set at any index the list accepts included, every slot in
\* [length, capacity) holds None.
C17_SlackAlwaysEmpty == IsDA => SlackEmpty(arr, len, capacity)

\* C17 amended: the same, as long as every plain set wrote a live slot (its
\* index denoted a slot in [0, length), or the list refused it).
C17_SlackEmptyUnlessStray == (IsDA /\ ~stray) => SlackEmpty(arr, len, capacity)

C17_Witness ==
  /\ IsDA /\ ~stray /\ op = "clear"
  /\ pre.len = 3 /\ Live(pre.arr, pre.len) = <<1, 2, 1>>
  /\ capacity = 4 /\ SlackEmpty(arr, len, capacity)

\* The result index_of is to give: the smallest 0-based index below l whose
\* element equals value, -1 when there is none.
FirstIndex(a, l, value) ==
  IF Absent(a, l, value) THEN 0 - 1 ELSE FirstAt(a, l, value) - 1

\* C18: in both classes index_of(value) returns the smallest index below
\* length whose element equals value and -1 when there is none; it never
\* returns an index >= length, so None is found only in a live slot.
C18_IndexOfFirstLive ==
  (exists /\ op = "index_of") =>
    /\ err = "none"
    /\ ret = FirstIndex(arr, len, val)
    /\ ret < len
    /\ (val = None /\ \A i \in 1..len : arr[i] # None) => ret = 0 - 1

\* None is asked for while the only None slots lie outside the live range.
C18_Witness ==
  /\ IsDA /\ op = "index_of" /\ val = None /\ ret = 0 - 1
  /\ len = 2 /\ capacity = 4
  /\ arr = <<1, 2, None, None>>

\* A live None behind a value is found at its own index.
C18_LiveNoneWitness ==
  /\ IsM /\ op = "index_of" /\ val = None /\ ret = 1
  /\ len = 3 /\ Live(arr, len) = <<2, None, None>>

====
